---- MODULE Spec2Model ----
(***************************************************************************)
(* Agent-pattern scripts of agent-lab: the parallelization guardrail       *)
(* (patterns/parallelization.py), the prompt-chaining email pipeline       *)
(* (patterns/prompt_chaining.py), the model router (patterns/routing.py),  *)
(* the structured output extractor (basics/structured_output.py) and the   *)
(* tool-calling weather agent (basics/weather_agent.py).  Each script is a *)
(* standalone process; one run of the model executes exactly one of them   *)
(* (variable script), starting with its module-level setup.                *)
(*                                                                         *)
(* Python values: None is the empty sequence, a present value x is <<x>>.  *)
(* Text is a TLA+ string.  A float in [0, 1] is an integer number of       *)
(* hundredths.                                                             *)
(***************************************************************************)
EXTENDS Integers, Sequences, FiniteSets, TLC

VARIABLES
    script,                  \* which script this process runs
    environ,                 \* the process environment (after load_dotenv)
    setup,                   \* how the script's module-level setup ended
    \* ---- structured_output.py
    pc_so,                   \* position of the script
    parsed_event,            \* completion.choices[0].message.parsed
    \* ---- weather_agent.py
    pc_w,                    \* position of the script
    messages,                \* the conversation
    tool_calls,              \* tool calls of the first completion
    executed,                \* tool calls run so far, with their results
    http_gets,               \* GET requests sent to the weather service
    final_request,           \* the messages sent with the final-answer request
    \* ---- parallelization.py
    pc_par,                  \* position of get_answer_with_guardrail
    ready,                   \* the event loop's queue of ready callbacks
    task,                    \* state of the two tasks made by asyncio.gather
    nfinished,               \* gather: number of tasks seen finished without error
    outer,                   \* gather's outer future
    topical_guardrail_check, \* what topical_guardrail returned
    answer,                  \* what get_answer returned
    par_ret,                 \* how get_answer_with_guardrail ended
    \* ---- prompt_chaining.py
    pc_mail,                 \* position of get_summary_of_mail
    mail_filter,             \* what filter_mail returned
    cleaned_mail,            \* what get_cleaned_mail returned
    final_output,            \* what summarise_mail returned
    calls,                   \* stage invocations, in order
    raised_by,               \* stages whose call raised
    mail_ret,                \* how get_summary_of_mail ended
    \* ---- routing.py
    env_vars,                \* keys of the settings record
    reply,                   \* what the classification service answers, if asked
    pc_route,                \* position of the router's get_answer
    decide,                  \* how decide_route ended
    route,                   \* what decide_route returned
    model_calls,             \* model callers invoked, in order
    requests,                \* requests that reached a model service, in order
    route_ret                \* how the router's get_answer ended

par_vars   == <<pc_par, ready, task, nfinished, outer, topical_guardrail_check,
                answer, par_ret>>
mail_vars  == <<pc_mail, mail_filter, cleaned_mail, final_output, calls,
                raised_by, mail_ret>>
route_vars == <<env_vars, reply, pc_route, decide, route, model_calls, requests,
                route_ret>>
boot_vars  == <<environ, setup>>
so_vars    == <<pc_so, parsed_event>>
weather_vars == <<pc_w, messages, tool_calls, executed, http_gets,
                  final_request>>
vars       == <<script, boot_vars, so_vars, weather_vars, par_vars, mail_vars,
                route_vars>>

\* ------------------------------------------------------------------ values

None == <<>>
Some(x) == <<x>>

Running     == [status |-> "running",  value |-> None]
Returned(v) == [status |-> "returned", value |-> v]
Raised      == [status |-> "raised",   value |-> None]

\* Longest text the model services hand back, in characters.
MaxStrLen == 2

Chars == {" ", "a"}
Whitespace == {" "}

RECURSIVE StrsUpTo(_)
StrsUpTo(n) ==
    IF n = 0 THEN {""}
    ELSE StrsUpTo(n - 1) \cup {s \o c : s \in StrsUpTo(n - 1), c \in Chars}

Texts == StrsUpTo(MaxStrLen)

\* str.strip(): drop leading, then trailing, whitespace.
RECURSIVE LStrip(_)
LStrip(s) ==
    IF Len(s) > 0 /\ SubSeq(s, 1, 1) \in Whitespace
    THEN LStrip(SubSeq(s, 2, Len(s)))
    ELSE s

RECURSIVE RStrip(_)
RStrip(s) ==
    IF Len(s) > 0 /\ SubSeq(s, Len(s), Len(s)) \in Whitespace
    THEN RStrip(SubSeq(s, 1, Len(s) - 1))
    ELSE s

Strip(s) == RStrip(LStrip(s))

\* ------------------------------------------------------- module setup

\* A setting read with os.getenv: absent, empty, or set.
SettingValues == {None, Some(""), Some("https://example.openai.azure.com")}

\* "not value" on what os.getenv returned.
NotSet(v) == v = None \/ v[1] = ""

ReadsDeployedModel == {"structured_output", "weather_agent"}

\* The environments a script can start in.  Only structured_output.py and
\* weather_agent.py read AZURE_DEPLOYED_MODEL; the others name their model in
\* the source.
Environments(s) ==
    [AZURE_DEPLOYED_MODEL :
        IF s \in ReadsDeployedModel THEN SettingValues ELSE {Some("gpt-4o-mini-2")},
     AZURE_ENDPOINT : SettingValues]

\* AzureOpenAI(azure_endpoint=...): with None the client takes the endpoint
\* from its own environment variable and raises when that is missing too;
\* with any string, the empty one included, the client is built.
ClientConstructed(endpoint) == IF endpoint = None THEN BOOLEAN ELSE {TRUE}

\* structured_output.py lines 10-22 and weather_agent.py lines 13-25.
SetupChecksEndpointAndModel ==
    /\ script \in ReadsDeployedModel
    /\ setup = "pending"
    /\ setup' = IF NotSet(environ.AZURE_ENDPOINT)
                   \/ NotSet(environ.AZURE_DEPLOYED_MODEL)
                THEN "ValueError"
                ELSE "ok"
    /\ UNCHANGED <<script, environ, so_vars, weather_vars, par_vars, mail_vars,
                   route_vars>>

\* prompt_chaining.py lines 14-27: the model is a literal, the endpoint is
\* checked.
SetupPromptChaining ==
    /\ script = "prompt_chaining"
    /\ setup = "pending"
    /\ setup' = IF NotSet(environ.AZURE_ENDPOINT) THEN "ValueError" ELSE "ok"
    /\ UNCHANGED <<script, environ, so_vars, weather_vars, par_vars, mail_vars,
                   route_vars>>

\* parallelization.py lines 3-22: env_vars is imported and the client built
\* from it; nothing is checked.
SetupParallelization ==
    /\ script = "parallelization"
    /\ setup = "pending"
    /\ \E constructed \in ClientConstructed(environ.AZURE_ENDPOINT) :
          setup' = IF constructed THEN "ok" ELSE "ClientError"
    /\ UNCHANGED <<script, environ, so_vars, weather_vars, par_vars, mail_vars,
                   route_vars>>

\* routing.py lines 1-18: env_vars is imported; no client is built and
\* nothing is checked.
SetupRouting ==
    /\ script = "routing"
    /\ setup = "pending"
    /\ setup' = "ok"
    /\ UNCHANGED <<script, environ, so_vars, weather_vars, par_vars, mail_vars,
                   route_vars>>

\* ------------------------------------------------- structured_output.py

CalenderEvent ==
    [name : {"science fair"}, date : {"Friday"},
     participants : {<<"Alice", "Bob">>, <<>>}]

\* Lines 34-53: the one parse request; a raise ends the script, a parsed
\* event is printed, None is skipped.
ExtractEvent ==
    /\ script = "structured_output"
    /\ setup = "ok"
    /\ pc_so = "completion"
    /\ \/ /\ pc_so' = "raised"
          /\ UNCHANGED parsed_event
       \/ /\ pc_so' = "done"
          /\ parsed_event' \in {None} \cup {Some(e) : e \in CalenderEvent}
    /\ UNCHANGED <<script, boot_vars, weather_vars, par_vars, mail_vars,
                   route_vars>>

\* ------------------------------------------------- parallelization.py

InputValidation == [is_allowed : BOOLEAN, reason : {"off topic", "in scope"}]

Answers == {"answer one", "answer two"}

Tasks == {"topical_guardrail", "get_answer"}

Step(t)         == [kind |-> "step", task |-> t]
DoneCallback(t) == [kind |-> "done_callback", task |-> t]
Wakeup          == [kind |-> "wakeup", task |-> "get_answer_with_guardrail"]

\* What a task's coroutine can hand back: topical_guardrail the parsed
\* verdict or None, get_answer the message content or None.
TaskValues(t) ==
    IF t = "topical_guardrail"
    THEN {None} \cup {Some(v) : v \in InputValidation}
    ELSE {None} \cup {Some(a) : a \in Answers}

\* asyncio.gather(topical_guardrail(topic), get_answer(topic)): both
\* coroutines become tasks, their first steps queued in argument order, and
\* the caller suspends on the outer future.
Gather ==
    /\ script = "parallelization"
    /\ setup = "ok"
    /\ pc_par = "gather"
    /\ task' = [t \in Tasks |-> "scheduled"]
    /\ ready' = <<Step("topical_guardrail"), Step("get_answer")>>
    /\ pc_par' = "awaiting"
    /\ UNCHANGED <<script, boot_vars, so_vars, weather_vars, nfinished, outer, topical_guardrail_check, answer,
                   par_ret, mail_vars, route_vars>>

\* The loop runs the task's step: the coroutine body has no await, and its
\* client call is the blocking one, so the request goes out and the loop
\* stays inside this step until the call ends.
TaskDispatch(t) ==
    /\ script = "parallelization"
    /\ ready # <<>>
    /\ Head(ready) = Step(t)
    /\ task[t] = "scheduled"
    /\ task' = [task EXCEPT ![t] = "inflight"]
    /\ UNCHANGED <<script, boot_vars, so_vars, weather_vars, pc_par, ready, nfinished, outer,
                   topical_guardrail_check, answer, par_ret, mail_vars,
                   route_vars>>

\* The blocking call ends: the coroutine returns its value.
TaskReturn(t) ==
    /\ script = "parallelization"
    /\ ready # <<>>
    /\ Head(ready) = Step(t)
    /\ task[t] = "inflight"
    /\ \E v \in TaskValues(t) :
          /\ topical_guardrail_check' =
                IF t = "topical_guardrail" THEN v ELSE topical_guardrail_check
          /\ answer' = IF t = "get_answer" THEN v ELSE answer
    /\ task' = [task EXCEPT ![t] = "returned"]
    /\ ready' = Append(Tail(ready), DoneCallback(t))
    /\ UNCHANGED <<script, boot_vars, so_vars, weather_vars, pc_par, nfinished, outer, par_ret, mail_vars,
                   route_vars>>

\* The blocking call raises: neither coroutine has a try, so its task ends
\* with the exception.
TaskRaise(t) ==
    /\ script = "parallelization"
    /\ ready # <<>>
    /\ Head(ready) = Step(t)
    /\ task[t] = "inflight"
    /\ task' = [task EXCEPT ![t] = "raised"]
    /\ ready' = Append(Tail(ready), DoneCallback(t))
    /\ UNCHANGED <<script, boot_vars, so_vars, weather_vars, pc_par, nfinished, outer, topical_guardrail_check,
                   answer, par_ret, mail_vars, route_vars>>

\* gather's callback on a finished task (return_exceptions is not set): the
\* first exception ends the outer future at once; otherwise the outer future
\* gets its result when both tasks have finished.
GatherDoneCallback(t) ==
    /\ script = "parallelization"
    /\ ready # <<>>
    /\ Head(ready) = DoneCallback(t)
    /\ IF outer # "pending"
       THEN /\ ready' = Tail(ready)
            /\ UNCHANGED <<outer, nfinished>>
       ELSE IF task[t] = "raised"
       THEN /\ outer' = "exception"
            /\ ready' = Append(Tail(ready), Wakeup)
            /\ UNCHANGED nfinished
       ELSE /\ nfinished' = nfinished + 1
            /\ IF nfinished' = Cardinality(Tasks)
               THEN /\ outer' = "result"
                    /\ ready' = Append(Tail(ready), Wakeup)
               ELSE /\ ready' = Tail(ready)
                    /\ UNCHANGED outer
    /\ UNCHANGED <<script, boot_vars, so_vars, weather_vars, pc_par, task, topical_guardrail_check, answer,
                   par_ret, mail_vars, route_vars>>

\* is_allowed (lines 80-84).
IsAllowedIgnoresVerdict(check) == check # None

IsAllowed(check) ==
    IF check # None THEN check[1].is_allowed ELSE FALSE

\* The value get_answer_with_guardrail returns from the two results
\* (lines 80-96).
Combine(check, ans) ==
    IF IsAllowed(check)
    THEN ans
    ELSE LET reason == IF check # None THEN check[1].reason
                       ELSE "Unknown reason"
         IN  Some("Topic not allowed: " \o reason)

\* The await of line 76 resumes: with the outer future's exception, which
\* get_answer_with_guardrail does not catch, or with both results, which it
\* combines.
ResumeAfterGather ==
    /\ script = "parallelization"
    /\ ready # <<>>
    /\ Head(ready) = Wakeup
    /\ pc_par = "awaiting"
    /\ ready' = Tail(ready)
    /\ pc_par' = "done"
    /\ par_ret' = IF outer = "exception" THEN Raised
                  ELSE Returned(Combine(topical_guardrail_check, answer))
    /\ UNCHANGED <<script, boot_vars, so_vars, weather_vars, task, nfinished, outer, topical_guardrail_check,
                   answer, mail_vars, route_vars>>

\* -------------------------------------------------- prompt_chaining.py

\* confidence_score is a float with ge=0, le=1: hundredths, 0..ConfidenceScale.
ConfidenceScale == 100

\* The 0.70 of line 190, in hundredths.
SpamThreshold == 70

FilteredEmail == [is_spam : BOOLEAN, confidence_score : 0 .. ConfidenceScale]
CleanedEmailOutput == [clean_output : Texts]
EmailSummaryOutput == [summary : Texts]

Stages == <<"filter_mail", "get_cleaned_mail", "summarise_mail">>

\* What the parse call of a stage can do: raise (service failure, reply that
\* does not validate), or hand back message.parsed, which may be None.
ParseOutcomes(schema) ==
    {[raises |-> TRUE, parsed |-> None]}
        \cup {[raises |-> FALSE, parsed |-> None]}
        \cup {[raises |-> FALSE, parsed |-> Some(v)] : v \in schema}

\* A stage function (filter_mail, get_cleaned_mail, summarise_mail) raises
\* when its call raised (logged, re-raised) or when "not result" holds.
StageRaises(o) == o.raises \/ o.parsed = None

\* The except clause of get_summary_of_mail (lines 210-212).
OnExceptionPropagate == Raised

OnException == Returned(None)

\* Line 190.
HaltsOnSpamAtThreshold(f) ==
    f.is_spam /\ f.confidence_score >= SpamThreshold

HaltsOnSpam(f) == f.is_spam /\ f.confidence_score > SpamThreshold

\* "not text.strip()" of lines 198 and 204.
IsBlankWithoutStrip(text) == text = ""

IsBlank(text) == Strip(text) = ""

\* A stage call inside the try of get_summary_of_mail: the stage is invoked;
\* if it raises, the except clause ends the run, otherwise its value is bound
\* and the run moves to the check that follows.
StageCall(stage, o, next) ==
    /\ calls' = Append(calls, stage)
    /\ IF StageRaises(o)
       THEN /\ raised_by' = raised_by \cup {stage}
            /\ mail_ret' = OnException
            /\ pc_mail' = "done"
       ELSE /\ pc_mail' = next
            /\ UNCHANGED <<raised_by, mail_ret>>

\* mail_filter = filter_mail(mail), line 189.
FilterMail ==
    /\ script = "prompt_chaining"
    /\ setup = "ok"
    /\ pc_mail = "filter_mail"
    /\ \E o \in ParseOutcomes(FilteredEmail) :
          /\ StageCall("filter_mail", o, "check_spam")
          /\ mail_filter' = IF StageRaises(o) THEN mail_filter ELSE o.parsed
    /\ UNCHANGED <<script, boot_vars, so_vars, weather_vars, cleaned_mail, final_output, par_vars, route_vars>>

\* Lines 190-196.
CheckSpam ==
    /\ script = "prompt_chaining"
    /\ pc_mail = "check_spam"
    /\ IF HaltsOnSpam(mail_filter[1])
       THEN /\ mail_ret' = Returned(None)
            /\ pc_mail' = "done"
       ELSE /\ pc_mail' = "get_cleaned_mail"
            /\ UNCHANGED mail_ret
    /\ UNCHANGED <<script, boot_vars, so_vars, weather_vars, mail_filter, cleaned_mail, final_output, calls,
                   raised_by, par_vars, route_vars>>

\* cleaned_mail = get_cleaned_mail(mail), line 197.
GetCleanedMail ==
    /\ script = "prompt_chaining"
    /\ pc_mail = "get_cleaned_mail"
    /\ \E o \in ParseOutcomes(CleanedEmailOutput) :
          /\ StageCall("get_cleaned_mail", o, "check_cleaned")
          /\ cleaned_mail' = IF StageRaises(o) THEN cleaned_mail ELSE o.parsed
    /\ UNCHANGED <<script, boot_vars, so_vars, weather_vars, mail_filter, final_output, par_vars, route_vars>>

\* Lines 198-202.
CheckCleaned ==
    /\ script = "prompt_chaining"
    /\ pc_mail = "check_cleaned"
    /\ IF cleaned_mail = None \/ IsBlank(cleaned_mail[1].clean_output)
       THEN /\ mail_ret' = Returned(None)
            /\ pc_mail' = "done"
       ELSE /\ pc_mail' = "summarise_mail"
            /\ UNCHANGED mail_ret
    /\ UNCHANGED <<script, boot_vars, so_vars, weather_vars, mail_filter, cleaned_mail, final_output, calls,
                   raised_by, par_vars, route_vars>>

\* final_output = summarise_mail(cleaned_mail), line 203.
SummariseMail ==
    /\ script = "prompt_chaining"
    /\ pc_mail = "summarise_mail"
    /\ \E o \in ParseOutcomes(EmailSummaryOutput) :
          /\ StageCall("summarise_mail", o, "check_summary")
          /\ final_output' = IF StageRaises(o) THEN final_output ELSE o.parsed
    /\ UNCHANGED <<script, boot_vars, so_vars, weather_vars, mail_filter, cleaned_mail, par_vars, route_vars>>

\* Lines 204-209.
CheckSummary ==
    /\ script = "prompt_chaining"
    /\ pc_mail = "check_summary"
    /\ mail_ret' = IF final_output = None \/ IsBlank(final_output[1].summary)
                   THEN Returned(None)
                   ELSE Returned(final_output)
    /\ pc_mail' = "done"
    /\ UNCHANGED <<script, boot_vars, so_vars, weather_vars, mail_filter, cleaned_mail, final_output, calls,
                   raised_by, par_vars, route_vars>>

\* ---------------------------------------------------------- routing.py

GPT_4_O == "gpt-4o-mini-2"
GEMINI_2_0_FLASH == "gemini-2.0-flash"

\* ModelRoute: the values question_type is asked to take.
ModelRoute == {GEMINI_2_0_FLASH, GPT_4_O, "unknown"}

FallbackMessage == "Sorry, I couldn't determine how to answer your question."
NoAnswerMessage == "Sorry, I couldn't generate an answer at this time."
SmallErrorMessage ==
    "An error occurred while processing your request with the small model."
LargeErrorMessage ==
    "An error occurred while processing your request with the large model."

\* The keys of env_vars as env_setup.py builds it.
EnvSetupKeys == {"model", "api_key", "azure_endpoint", "api_version"}

\* routing.py also reads env_vars["gemini_api_key"], which env_setup.py does
\* not set; env_vars is a module-level dict, and the model covers the record
\* as built and the record carrying that key as well.
SettingsRecords == {EnvSetupKeys, EnvSetupKeys \cup {"gemini_api_key"}}

\* ---- JSON values (what json.loads returns).  JSON null is Python None.
JValue(kind, s, items, fields) ==
    [kind |-> kind, s |-> s, items |-> items, fields |-> fields]

JNull      == JValue("null", "null", <<>>, <<>>)
JBool(b)   == JValue("bool", b, <<>>, <<>>)
JNum(n)    == JValue("num", n, <<>>, <<>>)
JStr(s)    == JValue("str", s, <<>>, <<>>)
JList(xs)  == JValue("list", "", xs, <<>>)
JObj(fs)   == JValue("obj", "", <<>>, fs)
Member(k, v) == [key |-> k, val |-> v]

\* ---- JSON text, as its sequence of tokens.
NumTokens == {"0", "1"}
JsonStrings == ModelRoute \cup {"", "x", "question_type", "reasoning",
                                "confidence_score", "latitude", "longitude",
                                "current", "temperature_2m"}
StrToken(s) == "\"" \o s \o "\""
StrTokens == {StrToken(s) : s \in JsonStrings}
Unquote(t) == CHOOSE s \in JsonStrings : StrToken(s) = t

ParseOk(v, next) == [ok |-> TRUE, val |-> v, next |-> next]
ParseFail == [ok |-> FALSE, val |-> JNull, next |-> 0]

\* json.loads on a token sequence: a recursive-descent parser.
RECURSIVE ParseValue(_, _)
RECURSIVE ParseElements(_, _, _)
RECURSIVE ParseMembers(_, _, _)

ParseValue(t, i) ==
    IF i > Len(t) THEN ParseFail
    ELSE IF t[i] = "null" THEN ParseOk(JNull, i + 1)
    ELSE IF t[i] \in {"true", "false"} THEN ParseOk(JBool(t[i]), i + 1)
    ELSE IF t[i] \in NumTokens THEN ParseOk(JNum(t[i]), i + 1)
    ELSE IF t[i] \in StrTokens THEN ParseOk(JStr(Unquote(t[i])), i + 1)
    ELSE IF t[i] = "["
         THEN IF i + 1 <= Len(t) /\ t[i + 1] = "]"
              THEN ParseOk(JList(<<>>), i + 2)
              ELSE ParseElements(t, i + 1, <<>>)
    ELSE IF t[i] = "{"
         THEN IF i + 1 <= Len(t) /\ t[i + 1] = "}"
              THEN ParseOk(JObj(<<>>), i + 2)
              ELSE ParseMembers(t, i + 1, <<>>)
    ELSE ParseFail

ParseElements(t, i, acc) ==
    LET r == ParseValue(t, i) IN
    IF ~r.ok \/ r.next > Len(t) THEN ParseFail
    ELSE IF t[r.next] = "," THEN ParseElements(t, r.next + 1, Append(acc, r.val))
    ELSE IF t[r.next] = "]" THEN ParseOk(JList(Append(acc, r.val)), r.next + 1)
    ELSE ParseFail

ParseMembers(t, i, acc) ==
    IF i + 1 > Len(t) \/ t[i] \notin StrTokens \/ t[i + 1] # ":" THEN ParseFail
    ELSE LET r == ParseValue(t, i + 2)
             m == Member(Unquote(t[i]), r.val)
         IN  IF ~r.ok \/ r.next > Len(t) THEN ParseFail
             ELSE IF t[r.next] = ","
                  THEN ParseMembers(t, r.next + 1, Append(acc, m))
             ELSE IF t[r.next] = "}"
                  THEN ParseOk(JObj(Append(acc, m)), r.next + 1)
             ELSE ParseFail

\* json.loads(text): the value, or JSONDecodeError.
JsonLoads(t) ==
    LET r == ParseValue(t, 1) IN
    IF r.ok /\ r.next = Len(t) + 1
    THEN [error |-> FALSE, val |-> r.val]
    ELSE [error |-> TRUE, val |-> JNull]

\* ---- The text of a JSON value, as the service writes it.
RECURSIVE JsonDumps(_)
RECURSIVE DumpElements(_)
RECURSIVE DumpMembers(_)

JsonDumps(v) ==
    IF v.kind = "str" THEN <<StrToken(v.s)>>
    ELSE IF v.kind = "list" THEN <<"[">> \o DumpElements(v.items) \o <<"]">>
    ELSE IF v.kind = "obj" THEN <<"{">> \o DumpMembers(v.fields) \o <<"}">>
    ELSE <<v.s>>

DumpElements(xs) ==
    IF xs = <<>> THEN <<>>
    ELSE IF Len(xs) = 1 THEN JsonDumps(xs[1])
    ELSE JsonDumps(xs[1]) \o <<",">> \o DumpElements(Tail(xs))

DumpMembers(fs) ==
    IF fs = <<>> THEN <<>>
    ELSE LET m == <<StrToken(fs[1].key), ":">> \o JsonDumps(fs[1].val)
         IN  IF Len(fs) = 1 THEN m ELSE m \o <<",">> \o DumpMembers(Tail(fs))

\* ---- What the classification service can answer.

\* Longest decision list the classification service writes.
MaxDecisions == 2

RECURSIVE SeqsOfLen(_, _)
SeqsOfLen(S, n) ==
    IF n = 0 THEN {<<>>}
    ELSE {Append(xs, x) : xs \in SeqsOfLen(S, n - 1), x \in S}

SeqsUpTo(S, n) == UNION {SeqsOfLen(S, k) : k \in 0 .. n}

QuestionTypeValues ==
    {JStr(q) : q \in ModelRoute \cup {"", "x"}} \cup {JNull, JNum("1")}

\* Objects: none of the keys, a key other than question_type, question_type
\* alone, and whole RoutingDecision objects.
DecisionObjects ==
    {JObj(<<>>), JObj(<<Member("reasoning", JStr("x"))>>)}
        \cup {JObj(<<Member("question_type", q)>>) : q \in QuestionTypeValues}
        \cup {JObj(<<Member("question_type", JStr(q)),
                     Member("reasoning", JStr("x")),
                     Member("confidence_score", JNum("1"))>>) : q \in ModelRoute}

Scalars ==
    {JNull, JNum("0"), JNum("1"), JStr(""), JStr("x"), JBool("true"),
     JBool("false")}

ListElements ==
    DecisionObjects \cup {JNull, JNum("1"), JStr("x"), JList(<<>>)}

ReplyValues ==
    Scalars \cup DecisionObjects
        \cup {JList(xs) : xs \in SeqsUpTo(ListElements, MaxDecisions)}

\* A reply cut off before its last token.
Truncated(t) == SubSeq(t, 1, Len(t) - 1)

ReplyTexts ==
    {JsonDumps(v) : v \in ReplyValues}
        \cup {Truncated(JsonDumps(v)) : v \in ReplyValues}
        \cup {<<"EASY">>}

Replies ==
    {[raises |-> TRUE, text |-> <<>>]}
        \cup {[raises |-> FALSE, text |-> t] : t \in ReplyTexts}

\* ---- decide_route (lines 107-138).  Everything is inside its try: the key
\* lookup for the client, the request, and the parse of the reply text.
\* status: how it ended; val: the value returned (JNull is None);
\* requested: whether the request reached the service.
DecideResult(status, val, requested) ==
    [status |-> status, val |-> val, requested |-> requested]

decide_route(env, rep) ==
    IF "gemini_api_key" \notin env THEN DecideResult("KeyError", JNull, FALSE)
    ELSE IF rep.raises THEN DecideResult("raised", JNull, TRUE)
    ELSE IF rep.text = <<>> THEN DecideResult("no_text", JNull, TRUE)
    ELSE LET r == JsonLoads(rep.text) IN
         IF r.error THEN DecideResult("JSONDecodeError", JNull, TRUE)
         ELSE DecideResult("parsed", r.val, TRUE)

\* Python truth value of a parsed JSON value.
Truthy(v) ==
    CASE v.kind = "null" -> FALSE
      [] v.kind = "bool" -> v.s = "true"
      [] v.kind = "num"  -> v.s # "0"
      [] v.kind = "str"  -> v.s # ""
      [] v.kind = "list" -> v.items # <<>>
      [] v.kind = "obj"  -> v.fields # <<>>

\* dict.get(key): the value of the key (the last one, if repeated), or None.
RECURSIVE DictGet(_, _)
DictGet(fs, key) ==
    IF fs = <<>> THEN JNull
    ELSE IF fs[Len(fs)].key = key THEN fs[Len(fs)].val
    ELSE DictGet(SubSeq(fs, 1, Len(fs) - 1), key)

\* Which way get_answer goes on decide_route's value (lines 145-164).
\* route[0].get raises AttributeError when route[0] is no dict.
DispatchOnLastDecision(r) ==
    IF ~Truthy(r) \/ r.kind # "list" THEN "fallback"
    ELSE IF r.items[Len(r.items)].kind # "obj" THEN "AttributeError"
    ELSE LET question_type == DictGet(r.items[Len(r.items)].fields, "question_type") IN
         IF ~Truthy(question_type) THEN "fallback"
         ELSE IF question_type = JStr(GEMINI_2_0_FLASH) THEN "call_small_model"
         ELSE IF question_type = JStr(GPT_4_O) THEN "call_large_model"
         ELSE "fallback"

DispatchEmptyListToLarge(r) ==
    IF r.kind = "null" THEN "fallback"
    ELSE IF r.kind # "list" THEN "fallback"
    ELSE IF r.items = <<>> THEN "call_large_model"
    ELSE IF r.items[1].kind # "obj" THEN "AttributeError"
    ELSE LET question_type == DictGet(r.items[1].fields, "question_type") IN
         IF ~Truthy(question_type) THEN "fallback"
         ELSE IF question_type = JStr(GEMINI_2_0_FLASH) THEN "call_small_model"
         ELSE IF question_type = JStr(GPT_4_O) THEN "call_large_model"
         ELSE "fallback"

Dispatch(r) ==
    IF ~Truthy(r) \/ r.kind # "list" THEN "fallback"
    ELSE IF r.items[1].kind # "obj" THEN "AttributeError"
    ELSE LET question_type == DictGet(r.items[1].fields, "question_type") IN
         IF ~Truthy(question_type) THEN "fallback"
         ELSE IF question_type = JStr(GEMINI_2_0_FLASH) THEN "call_small_model"
         ELSE IF question_type = JStr(GPT_4_O) THEN "call_large_model"
         ELSE "fallback"

\* What a model service can do with the answer request: raise, or hand back a
\* response whose text (message content) may be missing.
ModelOutcomes ==
    {[raises |-> TRUE, choices |-> FALSE, text |-> None]}
        \cup {[raises |-> FALSE, choices |-> c, text |-> t] :
                c \in BOOLEAN, t \in {None} \cup {Some(x) : x \in Texts}}

\* call_small_model (lines 43-66), from the client's key lookup on.
call_small_model(env, o) ==
    IF "gemini_api_key" \notin env \/ o.raises THEN SmallErrorMessage
    ELSE IF o.text # None /\ o.text[1] # "" THEN Strip(o.text[1])
    ELSE NoAnswerMessage

\* call_large_model (lines 69-104).
call_large_model(env, o) ==
    IF ~({"api_key", "api_version", "azure_endpoint"} \subseteq env) \/ o.raises
    THEN LargeErrorMessage
    ELSE IF o.choices /\ o.text # None THEN Strip(o.text[1])
    ELSE NoAnswerMessage

\* route = decide_route(question), line 144.
DecideRoute ==
    /\ script = "routing"
    /\ setup = "ok"
    /\ pc_route = "decide_route"
    /\ LET d == decide_route(env_vars, reply) IN
          /\ decide' = d.status
          /\ route' = d.val
          /\ requests' = IF d.requested THEN Append(requests, "decide_route")
                         ELSE requests
    /\ pc_route' = "dispatch"
    /\ UNCHANGED <<script, boot_vars, so_vars, weather_vars, env_vars, reply, model_calls, route_ret, par_vars,
                   mail_vars>>

\* Lines 145-164, up to the call of the chosen model caller.
DispatchRoute ==
    /\ script = "routing"
    /\ pc_route = "dispatch"
    /\ LET way == Dispatch(route) IN
          IF way = "fallback"
          THEN /\ route_ret' = Returned(Some(FallbackMessage))
               /\ pc_route' = "done"
          ELSE IF way = "AttributeError"
          THEN /\ route_ret' = Raised
               /\ pc_route' = "done"
          ELSE /\ pc_route' = way
               /\ UNCHANGED route_ret
    /\ UNCHANGED <<script, boot_vars, so_vars, weather_vars, env_vars, reply, decide, route, model_calls,
                   requests, par_vars, mail_vars>>

\* return call_small_model(question), line 158.
CallSmallModel ==
    /\ script = "routing"
    /\ pc_route = "call_small_model"
    /\ \E o \in ModelOutcomes :
          LET result == call_small_model(env_vars, o) IN
             /\ model_calls' = Append(model_calls,
                    [caller |-> "call_small_model", result |-> result])
             /\ route_ret' = Returned(Some(result))
    /\ requests' = IF "gemini_api_key" \in env_vars
                   THEN Append(requests, "call_small_model") ELSE requests
    /\ pc_route' = "done"
    /\ UNCHANGED <<script, boot_vars, so_vars, weather_vars, env_vars, reply, decide, route, par_vars, mail_vars>>

\* return call_large_model(question), line 161.
CallLargeModel ==
    /\ script = "routing"
    /\ pc_route = "call_large_model"
    /\ \E constructed \in ClientConstructed(environ.AZURE_ENDPOINT) :
       \E o \in ModelOutcomes :
          LET result == call_large_model(env_vars, o) IN
             /\ constructed \/ o.raises
             /\ model_calls' = Append(model_calls,
                    [caller |-> "call_large_model", result |-> result])
             /\ route_ret' = Returned(Some(result))
             /\ requests' = IF constructed
                            THEN Append(requests, "call_large_model")
                            ELSE requests
    /\ pc_route' = "done"
    /\ UNCHANGED <<script, boot_vars, so_vars, weather_vars, env_vars, reply, decide, route, par_vars, mail_vars>>

\* ------------------------------------------------------ weather_agent.py

system_prompt ==
    "You are a helpful assistant that can provide weather information based on latitude and longitude."

\* messages, lines 50-53.
InitialMessages ==
    <<[role |-> "system", content |-> system_prompt],
      [role |-> "user", content |-> "What is the weather like srinagar kashmir?"]>>

\* Most tool calls the first completion asks for.
MaxToolCalls == 2

ToolNames == {"get_weather", "get_time"}
ToolCallIds == {"call_1", "call_2"}

WeatherArguments ==
    JObj(<<Member("latitude", JNum("1")), Member("longitude", JNum("0"))>>)

\* tool_call.function.arguments is JSON text: the two coordinates, an object
\* without them, or text cut short.
ArgumentTexts ==
    {JsonDumps(WeatherArguments), JsonDumps(JObj(<<>>)),
     Truncated(JsonDumps(WeatherArguments))}

ToolCalls ==
    [id : ToolCallIds, type : {"function"},
     function : [name : ToolNames, arguments : ArgumentTexts]]

\* What the first completion request can do: raise, or hand back a message
\* with content (or None) and tool calls (none, when absent or empty).
FirstCompletions ==
    {[raises |-> TRUE, content |-> None, tool_calls |-> <<>>]}
        \cup {[raises |-> FALSE, content |-> c, tool_calls |-> tcs] :
                c \in {None, Some("It is sunny.")},
                tcs \in SeqsUpTo(ToolCalls, MaxToolCalls)}

CurrentWeather == JObj(<<Member("temperature_2m", JNum("1"))>>)

\* The body of the weather service's answer: with "current", without it, or
\* not JSON.
BodyTexts ==
    {JsonDumps(JObj(<<Member("current", CurrentWeather)>>)),
     JsonDumps(JObj(<<>>)),
     Truncated(JsonDumps(JObj(<<Member("current", CurrentWeather)>>)))}

\* What requests.get can do: raise, or answer with a status and a body.
HttpOutcomes ==
    {[raises |-> TRUE, status_code |-> 0, body |-> <<>>]}
        \cup {[raises |-> FALSE, status_code |-> c, body |-> b] :
                c \in {200, 500}, b \in BodyTexts}

\* The outcome of a tool run: raised or not, the value returned (JNull is
\* None), and whether the GET request went out.
ToolResult(raised, val, requested) ==
    [raises |-> raised, value |-> val, requested |-> requested]

Keys(obj) == {obj.fields[i].key : i \in 1 .. Len(obj.fields)}

\* get_weather(**arguments), lines 31-41: the call itself raises TypeError
\* unless arguments is a dict of exactly latitude and longitude.
get_weather(arguments, h) ==
    IF arguments.kind # "obj" \/ Keys(arguments) # {"latitude", "longitude"}
    THEN ToolResult(TRUE, JNull, FALSE)
    ELSE IF h.raises THEN ToolResult(TRUE, JNull, TRUE)
    ELSE IF h.status_code = 200
    THEN LET data == JsonLoads(h.body) IN
         IF data.error \/ data.val.kind # "obj" \/ "current" \notin Keys(data.val)
         THEN ToolResult(TRUE, JNull, TRUE)
         ELSE ToolResult(FALSE, DictGet(data.val.fields, "current"), TRUE)
    ELSE ToolResult(FALSE, JStr("Could not retrieve weather data."), TRUE)

\* call_function, lines 44-46: any other name falls through and gives None.
call_function(function_name, arguments, h) ==
    IF function_name = "get_weather" THEN get_weather(arguments, h)
    ELSE ToolResult(FALSE, JNull, FALSE)

\* The assistant message appended at lines 93-109.
AssistantMessage(content, tcs) ==
    [role |-> "assistant",
     content |-> content,
     tool_calls |->
        [i \in 1 .. Len(tcs) |->
            [id |-> tcs[i].id, type |-> tcs[i].type,
             function |-> [name |-> tcs[i].function.name,
                           arguments |-> tcs[i].function.arguments]]]]

\* The messages appended for one tool call, lines 118-124.
ToolResultMessagesOnlyForGetWeather(tool_call, result) ==
    IF tool_call.function.name = "get_weather"
    THEN <<[role |-> "tool", tool_call_id |-> tool_call.id,
            content |-> JsonDumps(result)]>>
    ELSE <<>>

ToolResultMessages(tool_call, result) ==
    <<[role |-> "tool", tool_call_id |-> tool_call.id,
       content |-> JsonDumps(result)]>>

\* Where the script goes after the first completion: the tool branch of
\* line 89 when there are tool calls; the final completion of line 138 is
\* module-level code after the if, reached either way.
AfterFirstCompletionStops(tcs) ==
    IF tcs # <<>> THEN "tool_loop" ELSE "done"

AfterFirstCompletion(tcs) ==
    IF tcs # <<>> THEN "tool_loop" ELSE "final_completion"

\* Lines 78-109: the first request, and the assistant message when the
\* completion carries tool calls.
FirstCompletion ==
    /\ script = "weather_agent"
    /\ setup = "ok"
    /\ pc_w = "first_completion"
    /\ \E c \in FirstCompletions :
          IF c.raises
          THEN /\ pc_w' = "first_completion_raised"
               /\ UNCHANGED <<messages, tool_calls>>
          ELSE /\ tool_calls' = c.tool_calls
               /\ messages' =
                     IF c.tool_calls # <<>>
                     THEN Append(messages, AssistantMessage(c.content, c.tool_calls))
                     ELSE messages
               /\ pc_w' = AfterFirstCompletion(c.tool_calls)
    /\ UNCHANGED <<script, boot_vars, so_vars, executed, http_gets,
                   final_request, par_vars, mail_vars, route_vars>>

\* One turn of the loop of lines 112-124: parse the arguments, run the
\* function, append the tool message.  Nothing is caught: a raise ends the
\* script.
ExecuteToolCall ==
    /\ script = "weather_agent"
    /\ pc_w = "tool_loop"
    /\ LET i == Len(executed) + 1
           tool_call == tool_calls[i]
           arguments == JsonLoads(tool_call.function.arguments)
       IN  IF arguments.error
           THEN /\ pc_w' = "tool_call_raised"
                /\ UNCHANGED <<messages, executed, http_gets>>
           ELSE \E h \in HttpOutcomes :
                LET r == call_function(tool_call.function.name, arguments.val, h) IN
                /\ http_gets' = IF r.requested THEN Append(http_gets, arguments.val)
                                ELSE http_gets
                /\ IF r.raises
                   THEN /\ pc_w' = "tool_call_raised"
                        /\ UNCHANGED <<messages, executed>>
                   ELSE /\ messages' = messages \o ToolResultMessages(tool_call, r.value)
                        /\ executed' = Append(executed,
                              [id |-> tool_call.id, result |-> r.value])
                        /\ pc_w' = IF i = Len(tool_calls) THEN "final_completion"
                                   ELSE "tool_loop"
    /\ UNCHANGED <<script, boot_vars, so_vars, tool_calls, final_request,
                   par_vars, mail_vars, route_vars>>

\* Lines 138-150: the final request with the whole conversation and the
\* WeatherResponse schema; the parsed answer is printed when present.
FinalCompletion ==
    /\ script = "weather_agent"
    /\ pc_w = "final_completion"
    /\ final_request' = Some(messages)
    /\ pc_w' \in {"done", "final_completion_raised"}
    /\ UNCHANGED <<script, boot_vars, so_vars, messages, tool_calls, executed,
                   http_gets, par_vars, mail_vars, route_vars>>

\* ------------------------------------------------------------ the system

Scripts ==
    {"structured_output", "weather_agent", "parallelization", "prompt_chaining",
     "routing"}

Init ==
    /\ script \in Scripts
    /\ environ \in Environments(script)
    /\ setup = "pending"
    /\ pc_so = "completion"
    /\ parsed_event = None
    /\ pc_w = "first_completion"
    /\ messages = InitialMessages
    /\ tool_calls = <<>>
    /\ executed = <<>>
    /\ http_gets = <<>>
    /\ final_request = None
    /\ pc_par = "gather"
    /\ ready = <<>>
    /\ task = [t \in Tasks |-> "none"]
    /\ nfinished = 0
    /\ outer = "pending"
    /\ topical_guardrail_check = None
    /\ answer = None
    /\ par_ret = Running
    /\ pc_mail = "filter_mail"
    /\ mail_filter = None
    /\ cleaned_mail = None
    /\ final_output = None
    /\ calls = <<>>
    /\ raised_by = {}
    /\ mail_ret = Running
    /\ IF script = "routing"
       THEN env_vars \in SettingsRecords /\ reply \in Replies
       ELSE env_vars = EnvSetupKeys /\ reply = [raises |-> TRUE, text |-> <<>>]
    /\ pc_route = "decide_route"
    /\ decide = "pending"
    /\ route = JNull
    /\ model_calls = <<>>
    /\ requests = <<>>
    /\ route_ret = Running

Next ==
    \/ SetupChecksEndpointAndModel
    \/ SetupPromptChaining
    \/ SetupParallelization
    \/ SetupRouting
    \/ ExtractEvent
    \/ FirstCompletion
    \/ ExecuteToolCall
    \/ FinalCompletion
    \/ Gather
    \/ \E t \in Tasks : TaskDispatch(t)
    \/ \E t \in Tasks : TaskReturn(t)
    \/ \E t \in Tasks : TaskRaise(t)
    \/ \E t \in Tasks : GatherDoneCallback(t)
    \/ ResumeAfterGather
    \/ FilterMail
    \/ CheckSpam
    \/ GetCleanedMail
    \/ CheckCleaned
    \/ SummariseMail
    \/ CheckSummary
    \/ DecideRoute
    \/ DispatchRoute
    \/ CallSmallModel
    \/ CallLargeModel

Spec == Init /\ [][Next]_vars

\* ------------------------------------------------------------- claims

Range(xs) == {xs[i] : i \in 1 .. Len(xs)}

RejectionPrefix == "Topic not allowed: "

IsRejection(ret) ==
    /\ ret.status = "returned"
    /\ ret.value # None
    /\ SubSeq(ret.value[1], 1, Len(RejectionPrefix)) = RejectionPrefix

\* C1: when the topical_guardrail call raises, get_answer_with_guardrail
\* returns the rejection message, whatever the get_answer call did.
C1_GuardrailRaiseReturnsRejection ==
    (pc_par = "done" /\ task["topical_guardrail"] = "raised")
        => IsRejection(par_ret)

\* C2: neither request waits for the other: a request is never still
\* undispatched once the other request has completed.
C2_DispatchDoesNotWaitForCompletion ==
    \A t \in Tasks : \A u \in Tasks \ {t} :
        task[t] \in {"returned", "raised"} => task[u] # "scheduled"

\* C3: when both calls return, the verdict alone decides the result: the
\* answer when allowed, "Topic not allowed: <reason>" when denied,
\* "Topic not allowed: Unknown reason" when absent; the answer is not
\* returned in the last two cases.
C3_ResultDecidedByVerdict ==
    (pc_par = "done" /\ \A t \in Tasks : task[t] = "returned") =>
        LET check == topical_guardrail_check IN
        /\ (check # None /\ check[1].is_allowed) => par_ret = Returned(answer)
        /\ (check # None /\ ~check[1].is_allowed) =>
              /\ par_ret = Returned(Some("Topic not allowed: " \o check[1].reason))
              /\ par_ret.value # answer
        /\ check = None =>
              /\ par_ret = Returned(Some("Topic not allowed: Unknown reason"))
              /\ par_ret.value # answer

C3_Witness ==
    /\ pc_par = "done"
    /\ \A t \in Tasks : task[t] = "returned"
    /\ topical_guardrail_check # None
    /\ ~topical_guardrail_check[1].is_allowed
    /\ answer # None
    /\ IsRejection(par_ret)

\* C4: once filter_mail returned a verdict, the run stops after the filter
\* stage with no summary and no clean stage exactly when is_spam holds and
\* confidence_score is above 0.70; otherwise the clean stage is invoked.
C4_HaltsIffSpamAboveThreshold ==
    (mail_filter # None /\ pc_mail # "check_spam") =>
        IF mail_filter[1].is_spam
              /\ mail_filter[1].confidence_score > SpamThreshold
        THEN /\ pc_mail = "done"
             /\ calls = <<"filter_mail">>
             /\ mail_ret = Returned(None)
        ELSE \/ pc_mail = "get_cleaned_mail" /\ calls = <<"filter_mail">>
             \/ Len(calls) >= 2 /\ calls[2] = "get_cleaned_mail"

C4_Witness ==
    /\ pc_mail = "done"
    /\ mail_filter = Some([is_spam |-> TRUE, confidence_score |-> SpamThreshold])
    /\ "get_cleaned_mail" \in Range(calls)

\* C5: a cleaned output that is empty or only whitespace ends the run with
\* no summary, and summarise_mail is never invoked.
C5_BlankCleanedSkipsSummarise ==
    (cleaned_mail # None /\ Strip(cleaned_mail[1].clean_output) = ""
        /\ pc_mail # "check_cleaned") =>
        /\ pc_mail = "done"
        /\ mail_ret = Returned(None)
        /\ "summarise_mail" \notin Range(calls)

C5_Witness ==
    /\ pc_mail = "done"
    /\ cleaned_mail = Some([clean_output |-> " "])
    /\ mail_ret = Returned(None)

\* C6: get_summary_of_mail never raises; a stage whose call raised or whose
\* parsed result was absent is the last stage invoked and the run returns
\* None; a run goes on past a stage only with that stage's value.
C6_NoExceptionPropagates ==
    /\ mail_ret.status # "raised"
    /\ \A i \in 1 .. Len(calls) :
          calls[i] \in raised_by =>
              /\ i = Len(calls)
              /\ pc_mail = "done"
              /\ mail_ret = Returned(None)
    /\ pc_mail = "check_spam" => mail_filter # None
    /\ pc_mail = "check_cleaned" => cleaned_mail # None
    /\ pc_mail = "check_summary" => final_output # None

C6_Witness ==
    /\ pc_mail = "done"
    /\ raised_by = {"get_cleaned_mail"}
    /\ calls = <<"filter_mail", "get_cleaned_mail">>
    /\ mail_ret = Returned(None)

\* C7: when the classification reply is the empty array or is not valid
\* JSON, the router's get_answer returns the fallback message and invokes
\* neither model caller.
C7_EmptyOrInvalidGivesFallback ==
    (decide = "JSONDecodeError" \/ (decide = "parsed" /\ route = JList(<<>>))) =>
        /\ model_calls = <<>>
        /\ pc_route \in {"dispatch", "done"}
        /\ pc_route = "done" => route_ret = Returned(Some(FallbackMessage))

C7_Witness ==
    /\ pc_route = "done"
    /\ decide = "parsed"
    /\ route = JList(<<>>)
    /\ reply.text = <<"[", "]">>
    /\ route_ret = Returned(Some(FallbackMessage))

HasKey(obj, key) == \E i \in 1 .. Len(obj.fields) : obj.fields[i].key = key

FirstCarriesQuestionType(r) ==
    /\ r.kind = "list"
    /\ r.items # <<>>
    /\ r.items[1].kind = "obj"
    /\ HasKey(r.items[1], "question_type")

OnlyCalled(caller) ==
    /\ Len(model_calls) = 1
    /\ model_calls[1].caller = caller
    /\ route_ret = Returned(Some(model_calls[1].result))

\* C8: with a decision list whose first element carries a question_type, the
\* cheap tag invokes only call_small_model, once, and returns its result; the
\* expensive tag only call_large_model; any other value neither, and the
\* fallback message is returned.  Later decisions do not matter.
C8_FirstDecisionRoutes ==
    (pc_route = "done" /\ FirstCarriesQuestionType(route)) =>
        LET question_type == DictGet(route.items[1].fields, "question_type") IN
        IF question_type = JStr(GEMINI_2_0_FLASH) THEN OnlyCalled("call_small_model")
        ELSE IF question_type = JStr(GPT_4_O) THEN OnlyCalled("call_large_model")
        ELSE /\ model_calls = <<>>
             /\ route_ret = Returned(Some(FallbackMessage))

C8_Witness ==
    /\ pc_route = "done"
    /\ route = JList(<<JObj(<<Member("question_type", JStr(GEMINI_2_0_FLASH))>>),
                       JObj(<<Member("question_type", JStr(GPT_4_O))>>)>>)
    /\ OnlyCalled("call_small_model")
    /\ requests = <<"decide_route", "call_small_model">>

\* C9: for no decision, a parsed value that is not a list, and a list whose
\* first element is no object or an object without question_type, the
\* router's get_answer returns the fallback message and does not raise.
C9_MalformedGivesFallback ==
    (pc_route = "done" /\ ~FirstCarriesQuestionType(route)) =>
        route_ret = Returned(Some(FallbackMessage))

FirstDecisionIs(rep, tag) ==
    /\ ~rep.raises
    /\ ~JsonLoads(rep.text).error
    /\ FirstCarriesQuestionType(JsonLoads(rep.text).val)
    /\ DictGet(JsonLoads(rep.text).val.items[1].fields, "question_type") = JStr(tag)

\* C10: with the settings record as env_setup.py builds it, a reply whose
\* first decision has the cheap tag makes get_answer return the cheap model's
\* answer, and one with the expensive tag the expensive model's: the
\* classification request and the chosen model's request are both made.
C10_EnvSetupRecordRoutes ==
    (script = "routing" /\ env_vars = EnvSetupKeys /\ pc_route = "done") =>
        /\ FirstDecisionIs(reply, GEMINI_2_0_FLASH) =>
              /\ OnlyCalled("call_small_model")
              /\ requests = <<"decide_route", "call_small_model">>
        /\ FirstDecisionIs(reply, GPT_4_O) =>
              /\ OnlyCalled("call_large_model")
              /\ requests = <<"decide_route", "call_large_model">>

\* The model identifier the running script sends with its requests.
ModelIdentifier ==
    IF script \in ReadsDeployedModel THEN environ.AZURE_DEPLOYED_MODEL
    ELSE Some(GPT_4_O)

\* A request has gone out to a model service or to the weather service.
NetworkCallIssued ==
    \/ pc_so # "completion"
    \/ pc_w # "first_completion"
    \/ \E t \in Tasks : task[t] \in {"inflight", "returned", "raised"}
    \/ calls # <<>>
    \/ requests # <<>>
    \/ http_gets # <<>>

\* C11: in every script, when the model identifier or the endpoint setting
\* is absent or empty, the setup fails with an error and no network request
\* is ever issued.
C11_MissingSettingFailsBeforeNetwork ==
    (NotSet(environ.AZURE_ENDPOINT) \/ NotSet(ModelIdentifier)) =>
        /\ ~NetworkCallIssued
        /\ setup \in {"pending", "ValueError", "ClientError"}

IsPrefix(xs, ys) == Len(xs) <= Len(ys) /\ SubSeq(ys, 1, Len(xs)) = xs

\* The conversation of the final-answer request: system, user, and with tool
\* calls the assistant message listing them all and then one tool message
\* per tool call, in order, each with its tool call's id.
ConversationShape(msgs) ==
    LET n == Len(tool_calls) IN
    /\ IsPrefix(InitialMessages, msgs)
    /\ IF n = 0 THEN Len(msgs) = 2
       ELSE /\ Len(msgs) = 3 + n
            /\ msgs[3].role = "assistant"
            /\ msgs[3].tool_calls = tool_calls
            /\ \A i \in 1 .. n :
                  /\ msgs[3 + i].role = "tool"
                  /\ msgs[3 + i].tool_call_id = tool_calls[i].id

\* C12: the weather agent's conversation only grows, by appending, and the
\* conversation sent with the final-answer request has the shape above, for
\* every requested tool call, whatever its name.
C12_ConversationGrowsInShape ==
    /\ [](final_request # None => ConversationShape(final_request[1]))
    /\ [][IsPrefix(messages, messages')]_vars

C12_Witness ==
    /\ final_request # None
    /\ Len(tool_calls) = 2
    /\ tool_calls[1].function.name = "get_weather"
    /\ tool_calls[2].function.name = "get_time"
    /\ Len(final_request[1]) = 5
    /\ final_request[1][5].tool_call_id = tool_calls[2].id
    /\ http_gets # <<>>

\* The first completion came back without a tool call.
FirstCompletionWithoutToolCall ==
    /\ pc_w \in {"final_completion", "done", "final_completion_raised"}
    /\ tool_calls = <<>>

\* C13 as stated: without a tool call in the first completion there is no
\* tool execution and no final-answer request.
C13_NoToolCallNoFurtherSteps ==
    FirstCompletionWithoutToolCall =>
        /\ executed = <<>>
        /\ http_gets = <<>>
        /\ final_request = None

\* C13 amended: without a tool call in the first completion there is no tool
\* execution and the conversation stays as it was, and the final-answer
\* request is still sent, with the system and user messages alone.
C13_NoToolCallStillAsksFinalAnswer ==
    FirstCompletionWithoutToolCall =>
        /\ executed = <<>>
        /\ http_gets = <<>>
        /\ messages = InitialMessages
        /\ final_request =
              IF pc_w = "final_completion" THEN None ELSE Some(InitialMessages)

C13_Witness ==
    /\ pc_w = "done"
    /\ tool_calls = <<>>
    /\ final_request = Some(InitialMessages)

\* C14: a run of get_summary_of_mail always has a next step until it has
\* returned, and it returns either None or a summary, never raises; the
\* stages are invoked in the order filter, clean, summarise, each at most
\* once and only after every earlier stage returned a value; a summary is
\* returned only when all three stages returned and the summary is not blank
\* after stripping.
C14_LinearPipeline ==
    /\ mail_ret.status # "raised"
    /\ (pc_mail = "done") <=> (mail_ret.status = "returned")
    /\ (script = "prompt_chaining" /\ setup = "ok" /\ pc_mail # "done")
          => ENABLED Next
    /\ IsPrefix(calls, Stages)
    /\ Len(calls) >= 2 => (mail_filter # None /\ "filter_mail" \notin raised_by)
    /\ Len(calls) >= 3 =>
          (cleaned_mail # None /\ "get_cleaned_mail" \notin raised_by)
    /\ mail_ret.value # None =>
          /\ calls = Stages
          /\ raised_by = {}
          /\ final_output # None
          /\ mail_ret = Returned(final_output)
          /\ Strip(final_output[1].summary) # ""

C14_Witness ==
    /\ pc_mail = "done"
    /\ calls = Stages
    /\ mail_ret = Returned(Some([summary |-> "a"]))

====
